---- MODULE Spec2Model ----
(***************************************************************************)
(* A model of ssschem: the state-space model holder (model.py), the parser *)
(* (parse.py), the graph builders (graph.py) and the emitter (render.py).  *)
(*                                                                         *)
(* Symbolic expressions are tagged records; the operations the code uses   *)
(* on them (==, simplify, str, is_number, evalf/float) are operators on    *)
(* those records.  A graph is a record of a node map and an edge map, each *)
(* mapping to an attribute dictionary, as a networkx DiGraph is.           *)
(***************************************************************************)
EXTENDS Integers, Sequences, FiniteSets, TLC

VARIABLES
    pc,         \* position of the caller: which operation ran last
    attempt,    \* shapes handed to the last construction attempt
    model,      \* the StateSpaceModel that exists, or NoModel
    error,      \* the exception the last operation raised, or NoError
    call,       \* arguments of the last build_graph call, or NoCall
    graph,      \* graph returned by the last build_graph call, or NoGraph
    heap,       \* object store: graph objects by identity (render pipeline)
    graphRef,   \* identity of the caller's graph in the heap
    before,     \* the caller's graph as it was before the last emitter call
    dotArgs,    \* arguments of the last graph_to_dot call
    dotOut,     \* text returned by the last graph_to_dot call
    prevDotArgs,\* arguments of the graph_to_dot call before the last one
    prevDotOut, \* text returned by that call
    fmtIn,      \* arguments of the last format_gain call
    fmtOut,     \* outcome of the last format_gain call
    writeIn,    \* arguments and environment of the last write_output call
    fs,         \* file system: what output_path holds and whether its parent exists
    events      \* what the last write_output call did, in order

vars == <<pc, attempt, model, error, call, graph, heap, graphRef,
          before, dotArgs, dotOut, prevDotArgs, prevDotOut, fmtIn, fmtOut,
          writeIn, fs, events>>

\* ---------------------------------------------------------------- bounds

MaxDim == 2
TapeLen == 3

\* ------------------------------------------------------------ text helpers

Digit(d) == CASE d = 0 -> "0" [] d = 1 -> "1" [] d = 2 -> "2" [] d = 3 -> "3"
              [] d = 4 -> "4" [] d = 5 -> "5" [] d = 6 -> "6" [] d = 7 -> "7"
              [] d = 8 -> "8" [] d = 9 -> "9"

RECURSIVE NatStr(_)
NatStr(n) == IF n < 10 THEN Digit(n) ELSE NatStr(n \div 10) \o Digit(n % 10)

IntStr(n) == IF n < 0 THEN "-" \o NatStr(-n) ELSE NatStr(n)

RECURSIVE Pow10(_)
Pow10(k) == IF k = 0 THEN 1 ELSE 10 * Pow10(k - 1)

\* --------------------------------------------------------- expression layer

\* sympy expressions: Integer(n), Rational(p, q), Symbol(name), the imaginary
\* unit I, Pow(Symbol(name), -1) and sin(name)**2 + cos(name)**2 + k.
Integer(n) == [tag |-> "Integer", num |-> n, den |-> 1, name |-> ""]
Rational(p, q) == [tag |-> "Rational", num |-> p, den |-> q, name |-> ""]
Symbol(nm) == [tag |-> "Symbol", num |-> 0, den |-> 1, name |-> nm]
ImaginaryUnit == [tag |-> "I", num |-> 0, den |-> 1, name |-> ""]
Inverse(nm) == [tag |-> "Inverse", num |-> 0, den |-> 1, name |-> nm]
TrigSum(nm, k) == [tag |-> "TrigSum", num |-> k, den |-> 1, name |-> nm]

S_SYMBOL == Symbol("s")
ONE == Integer(1)
ZERO == Integer(0)

\* ONE / S_SYMBOL
OneOverS == Inverse(S_SYMBOL.name)

\* sp.simplify(expr): the Pythagorean identity collapses, the rest is in
\* canonical form already.
Simplify(e) == IF e.tag = "TrigSum" THEN Integer(1 + e.num) ELSE e

\* str(expr)
Str(e) ==
    CASE e.tag = "Integer" -> IntStr(e.num)
      [] e.tag = "Rational" -> IntStr(e.num) \o "/" \o NatStr(e.den)
      [] e.tag = "Symbol" -> e.name
      [] e.tag = "I" -> "I"
      [] e.tag = "Inverse" -> "1/" \o e.name
      [] e.tag = "TrigSum" ->
            "sin(" \o e.name \o ")**2 + cos(" \o e.name \o ")**2"
            \o (IF e.num = 0 THEN ""
                ELSE IF e.num < 0 THEN " - " \o NatStr(-e.num)
                ELSE " + " \o NatStr(e.num))

\* expr.is_number: no free symbols
IsNumber(e) == e.tag \in {"Integer", "Rational", "I"}

\* bool(sp.simplify(expr) == 0)
IsStructuralZero(expr) == expr = ZERO
_is_zero(expr) == Simplify(expr) = ZERO

\* ------------------------------------------------------------------ errors

NoError == [type |-> "none", msg |-> <<>>]
ValueError(m) == [type |-> "ValueError", msg |-> m]
IndexError(m) == [type |-> "IndexError", msg |-> m]
RuntimeError(m) == [type |-> "RuntimeError", msg |-> m]

\* ---------------------------------------------------------------- matrices

\* sp.Matrix: rows, cols and the entries, indexed from 1 here and from 0 in
\* the code.
Matrix(r, c, f) == [rows |-> r, cols |-> c, at |-> f]

\* M[i, j] of the code (i, j from 0) is in range
InRange(M, i, j) == i >= 0 /\ i < M.rows /\ j >= 0 /\ j < M.cols

\* M[i, j]
MatGet(M, i, j) == M.at[<<i + 1, j + 1>>]

\* the entries a caller fills a matrix with: a tape of expressions read
\* cyclically, row by row, from an offset
CoefExprs == {ZERO, Integer(2), Symbol("a"), TrigSum("a", -1)}
Tapes == [1..TapeLen -> CoefExprs]
Entry(tape, k) == tape[(k % TapeLen) + 1]
Filled(r, c, tape, off) ==
    Matrix(r, c, [ij \in (1..r) \X (1..c) |->
                    Entry(tape, off + (ij[1] - 1) * c + (ij[2] - 1))])

\* ---------------------------------------------------------------- model.py

NoModel == [name |-> "<none>"]

\* StateSpaceModel.__post_init__: the first check that fails raises
PostInitNoVectorCheck(A, b, c) ==
    IF A.cols # A.rows THEN ValueError(<<"Matrix A must be square">>)
    ELSE NoError
PostInit(A, b, c) ==
    LET n == A.rows IN
    IF A.cols # n THEN ValueError(<<"Matrix A must be square">>)
    ELSE IF <<b.rows, b.cols>> # <<n, 1>>
         THEN ValueError(<<"Vector b must have shape", IntStr(n), "1">>)
    ELSE IF <<c.rows, c.cols>> # <<1, n>>
         THEN ValueError(<<"Vector c must have shape", "1", IntStr(n)>>)
    ELSE NoError

\* StateSpaceModel(name=, A=, b=, c=, d=, variables=): the object, or the
\* error its construction raises
StateSpaceModel(name, A, b, c, d, variables) ==
    LET e == PostInit(A, b, c) IN
    IF e # NoError THEN [ok |-> FALSE, error |-> e, value |-> NoModel]
    ELSE [ok |-> TRUE, error |-> NoError,
          value |-> [name |-> name, A |-> A, b |-> b, c |-> c, d |-> d,
                     variables |-> variables]]

\* StateSpaceModel.order
Order(m) == m.A.rows

\* ---------------------------------------------------------------- parse.py

\* values of the input mapping: a number, a string, or (in b and c) a list
RawInt(i) == [kind |-> "int", i |-> i, s |-> "", items |-> <<>>]
RawStr(t) == [kind |-> "str", i |-> 0, s |-> t, items |-> <<>>]
RawList(xs) == [kind |-> "list", i |-> 0, s |-> "", items |-> xs]
Absent == [kind |-> "absent", i |-> 0, s |-> "", items |-> <<>>]

TrigText == "sin(a)**2 + cos(a)**2 - 1"

\* sp.sympify(value, locals=locals_map) succeeds
SympifyOK(v) ==
    v.kind = "int" \/ (v.kind = "str" /\ v.s \in {"a", "a - a", "2", "1/3", TrigText})

\* sp.sympify(value, locals=locals_map): numbers are taken as they are,
\* strings are parsed and evaluated (a - a is 0 on construction, the
\* trigonometric identity is not applied)
Sympify(v) ==
    IF v.kind = "int" THEN Integer(v.i)
    ELSE CASE v.s = "a" -> Symbol("a")
           [] v.s = "a - a" -> ZERO
           [] v.s = "2" -> Integer(2)
           [] v.s = "1/3" -> Rational(1, 3)
           [] v.s = TrigText -> TrigSum("a", -1)

Ok(v) == [ok |-> TRUE, error |-> NoError, value |-> v]
Fail(e) == [ok |-> FALSE, error |-> e, value |-> NoModel]

\* parse_expr inside parse_model_dict: SympifyError becomes ValueError
ParseExprError(v, source) ==
    ValueError(<<"Failed to parse expression", v.s, source>>)

\* _validate_schema: MODEL_SCHEMA's minItems, for A, its rows, b, c and the
\* lists inside b and c (the generated documents have the required fields,
\* no other field, and scalars of the allowed types)
SchemaPaths(data) ==
    (IF Len(data.A) = 0 THEN <<"$.A">> ELSE <<>>)
    \o (IF \E r \in 1..Len(data.A) : Len(data.A[r]) = 0 THEN <<"$.A[]">> ELSE <<>>)
    \o (IF Len(data.b) = 0
           \/ \E k \in 1..Len(data.b) :
                 data.b[k].kind = "list" /\ Len(data.b[k].items) = 0
        THEN <<"$.b">> ELSE <<>>)
    \o (IF Len(data.c) = 0
           \/ \E k \in 1..Len(data.c) :
                 data.c[k].kind = "list" /\ Len(data.c[k].items) = 0
        THEN <<"$.c">> ELSE <<>>)

_validate_schema(data, source) ==
    IF SchemaPaths(data) = <<>> THEN NoError
    ELSE ValueError(<<"Input model validation failed for", source>> \o SchemaPaths(data))

\* _parse_matrix: rows are parsed in order; in a row a value that does not
\* parse raises before the row's width is compared with the first row's
_parse_matrix(raw, source, location) ==
    LET badRow(r) == (\E k \in 1..Len(raw[r]) : ~SympifyOK(raw[r][k]))
                     \/ Len(raw[r]) # Len(raw[1])
        bad == {r \in 1..Len(raw) : badRow(r)}
    IN  IF bad # {} THEN
            LET r == CHOOSE x \in bad : \A y \in bad : x <= y
                ks == {k \in 1..Len(raw[r]) : ~SympifyOK(raw[r][k])}
            IN  IF ks # {}
                THEN Fail(ParseExprError(
                        raw[r][CHOOSE k \in ks : \A j \in ks : k <= j], source))
                ELSE Fail(ValueError(<<location, "rows must all have",
                                       IntStr(Len(raw[1])), "columns">>))
        ELSE IF Len(raw) = 0
        THEN Fail(ValueError(<<location, "must contain at least one row">>))
        ELSE Ok(Matrix(Len(raw), Len(raw[1]),
                       [ij \in (1..Len(raw)) \X (1..Len(raw[1])) |->
                            Sympify(raw[ij[1]][ij[2]])]))

\* _flatten_vector: a list entry must hold exactly one element
_flatten_vector(raw, location) ==
    LET bad == {k \in 1..Len(raw) :
                    raw[k].kind = "list" /\ Len(raw[k].items) # 1}
    IN  IF bad # {}
        THEN Fail(ValueError(<<location, "entry",
                               IntStr((CHOOSE k \in bad : \A j \in bad : k <= j) - 1),
                               "must be a scalar or single-element list">>))
        ELSE Ok([k \in 1..Len(raw) |->
                    IF raw[k].kind = "list" THEN raw[k].items[1] ELSE raw[k]])

\* _parse_vector: flatten, compare the length, parse, build a column or a row
_parse_vector(raw, source, expected_len, location, column) ==
    LET fl == _flatten_vector(raw, location) IN
    IF ~fl.ok THEN fl
    ELSE LET flattened == fl.value
             ks == {k \in 1..Len(flattened) : ~SympifyOK(flattened[k])}
         IN  IF Len(flattened) # expected_len
             THEN Fail(ValueError(<<location, "must have length",
                                    IntStr(expected_len), "got",
                                    IntStr(Len(flattened))>>))
             ELSE IF ks # {}
             THEN Fail(ParseExprError(
                        flattened[CHOOSE k \in ks : \A j \in ks : k <= j], source))
             ELSE IF column
             THEN Ok(Matrix(Len(flattened), 1,
                            [ij \in (1..Len(flattened)) \X {1} |->
                                Sympify(flattened[ij[1]])]))
             ELSE Ok(Matrix(1, Len(flattened),
                            [ij \in {1} \X (1..Len(flattened)) |->
                                Sympify(flattened[ij[2]])]))

\* parse_model_dict
parse_model_dict(data, source) ==
    LET sch == _validate_schema(data, source)
        name == IF data.name = "" THEN "state-space-model" ELSE data.name
        A == _parse_matrix(data.A, source, "A")
    IN  IF sch # NoError THEN Fail(sch)
        ELSE IF ~A.ok THEN A
        ELSE IF A.value.rows # A.value.cols
        THEN Fail(ValueError(<<"Matrix A must be square">>))
        ELSE LET n == A.value.rows
                 b == _parse_vector(data.b, source, n, "b", TRUE)
                 c == _parse_vector(data.c, source, n, "c", FALSE)
                 dRaw == IF data.d = Absent THEN RawInt(0) ELSE data.d
             IN  IF ~b.ok THEN b
                 ELSE IF ~c.ok THEN c
                 ELSE IF ~SympifyOK(dRaw) THEN Fail(ParseExprError(dRaw, source))
                 ELSE StateSpaceModel(name, A.value, b.value, c.value,
                                      Sympify(dRaw), data.variables)

\* ---------------------------------------------------------------- graph.py

\* a dictionary with no key
EmptyMap == [k \in {} |-> k]

\* d[k] = v
Put(d, k, v) == [x \in DOMAIN d \cup {k} |-> IF x = k THEN v ELSE d[x]]

\* d.update(e)
Update(d, e) == [x \in DOMAIN d \cup DOMAIN e |-> IF x \in DOMAIN e THEN e[x] ELSE d[x]]

\* nx.DiGraph(): node -> attributes, (src, dst) -> attributes
NoGraph == [nodes |-> EmptyMap, edges |-> EmptyMap, none |-> TRUE]
DiGraph == [nodes |-> EmptyMap, edges |-> EmptyMap, none |-> FALSE]

\* graph.add_node(id, **attrs): a node that exists keeps its other attributes
add_node(g, id, attrs) ==
    [g EXCEPT !.nodes =
        Put(g.nodes, id, IF id \in DOMAIN g.nodes THEN Update(g.nodes[id], attrs)
                         ELSE attrs)]

\* graph.add_edge(src, dst, **attrs): endpoints that are no nodes yet are
\* added without attributes; an edge that exists is updated
add_edge(g, src, dst, attrs) ==
    LET withSrc == IF src \in DOMAIN g.nodes THEN g.nodes ELSE Put(g.nodes, src, EmptyMap)
        withDst == IF dst \in DOMAIN withSrc THEN withSrc ELSE Put(withSrc, dst, EmptyMap)
        e == <<src, dst>>
    IN  [g EXCEPT !.nodes = withDst,
                  !.edges = Put(g.edges, e,
                                IF e \in DOMAIN g.edges THEN Update(g.edges[e], attrs)
                                ELSE attrs)]

\* class GraphStyle(str, Enum), and a plain string passed as style
GraphStyleSFG == [cls |-> "GraphStyle", name |-> "SFG", value |-> "sfg"]
GraphStyleINTEGRATOR == [cls |-> "GraphStyle", name |-> "INTEGRATOR", value |-> "integrator"]
PlainStr(t) == [cls |-> "str", name |-> "", value |-> t]

\* f"{style}" of a value that is no member of GraphStyle
FormatStyle(style) == style.value

_state_id(index) == "x" \o IntStr(index + 1)
_xdot_id(index) == "xdot" \o IntStr(index + 1)
_sum_id(index) == "sum" \o IntStr(index + 1)
_integrator_id(index) == "int" \o IntStr(index + 1)

\* the combining dot above and the capital sigma, as text
DotAbove == "{U+0307}"
Sigma == "{U+03A3}"

_state_label(index, unicode_labels) == "x" \o IntStr(index + 1)
_xdot_label(index, unicode_labels) ==
    IF unicode_labels THEN "x" \o DotAbove \o IntStr(index + 1)
    ELSE "x_dot" \o IntStr(index + 1)
_sum_label(index, unicode_labels) ==
    IF unicode_labels THEN Sigma \o IntStr(index + 1)
    ELSE "sum" \o IntStr(index + 1)
_output_sum_label(unicode_labels) ==
    IF unicode_labels THEN Sigma \o "_y" ELSE "sum_y"

\* _add_edge
_add_edge(g, src, dst, gain, prune_zeros) ==
    IF prune_zeros /\ _is_zero(gain) THEN g
    ELSE add_edge(g, src, dst, [gain |-> gain])

\* sum_node_fn of the two builders
SumNode(style, idx) == IF style = "sfg" THEN _xdot_id(idx) ELSE _sum_id(idx)

\* _add_state_edges: the inner loop over col, from col on
RECURSIVE AddRowEdges(_, _, _, _, _, _)
AddRowEdges(g, m, prune_zeros, style, row, col) ==
    IF col >= Order(m) THEN g
    ELSE AddRowEdges(
            _add_edge(g, _state_id(col), SumNode(style, row), MatGet(m.A, row, col),
                      prune_zeros),
            m, prune_zeros, style, row, col + 1)

\* _add_state_edges: the outer loop over row, from row on
RECURSIVE AddStateEdgesFrom(_, _, _, _, _)
AddStateEdgesFrom(g, m, prune_zeros, style, row) ==
    IF row >= Order(m) THEN g
    ELSE AddStateEdgesFrom(
            _add_edge(AddRowEdges(g, m, prune_zeros, style, row, 0),
                      "u", SumNode(style, row), MatGet(m.b, row, 0), prune_zeros),
            m, prune_zeros, style, row + 1)

_add_state_edges(g, m, prune_zeros, style) == AddStateEdgesFrom(g, m, prune_zeros, style, 0)

\* build_sfg_graph: the loop that adds the state and xdot nodes
RECURSIVE SfgNodesFrom(_, _, _, _)
SfgNodesFrom(g, m, unicode_labels, idx) ==
    IF idx >= Order(m) THEN g
    ELSE SfgNodesFrom(
            add_node(add_node(g, _state_id(idx),
                              [type |-> "state", label |-> _state_label(idx, unicode_labels)]),
                     _xdot_id(idx),
                     [type |-> "xdot", label |-> _xdot_label(idx, unicode_labels)]),
            m, unicode_labels, idx + 1)

\* build_sfg_graph: the loop that adds xdot -> state (1/s, never pruned)
\* and state -> y (c[0, idx])
SfgOutEdgesSwapped(g, m, prune_zeros, idx) ==
    _add_edge(_add_edge(g, _state_id(idx), _xdot_id(idx), OneOverS, FALSE),
              _state_id(idx), "y", MatGet(m.c, 0, idx), prune_zeros)
SfgOutEdgesAt(g, m, prune_zeros, idx) ==
    _add_edge(_add_edge(g, _xdot_id(idx), _state_id(idx), OneOverS, FALSE),
              _state_id(idx), "y", MatGet(m.c, 0, idx), prune_zeros)

RECURSIVE SfgOutEdgesFrom(_, _, _, _)
SfgOutEdgesFrom(g, m, prune_zeros, idx) ==
    IF idx >= Order(m) THEN g
    ELSE SfgOutEdgesFrom(SfgOutEdgesAt(g, m, prune_zeros, idx), m, prune_zeros, idx + 1)

\* the feed-through edge of either builder: if model.d != ZERO
FeedThroughNoGuard(g, m, dst, prune_zeros) == _add_edge(g, "u", dst, m.d, prune_zeros)
FeedThrough(g, m, dst, prune_zeros) ==
    IF m.d # ZERO THEN _add_edge(g, "u", dst, m.d, prune_zeros) ELSE g

\* build_sfg_graph
build_sfg_graph(m, unicode_labels, prune_zeros) ==
    LET g1 == add_node(DiGraph, "u", [type |-> "input", label |-> "u"])
        g2 == add_node(g1, "y", [type |-> "output", label |-> "y"])
        g3 == SfgNodesFrom(g2, m, unicode_labels, 0)
        g4 == _add_state_edges(g3, m, prune_zeros, "sfg")
        g5 == SfgOutEdgesFrom(g4, m, prune_zeros, 0)
    IN  FeedThrough(g5, m, "y", prune_zeros)

\* build_integrator_graph: the loop that adds sum, int and state nodes and
\* wires sum -> int -> state with unit gain, never pruned
RECURSIVE IntNodesFrom(_, _, _, _)
IntNodesFrom(g, m, unicode_labels, idx) ==
    IF idx >= Order(m) THEN g
    ELSE LET a == add_node(g, _sum_id(idx),
                           [type |-> "sum", label |-> _sum_label(idx, unicode_labels)])
             b == add_node(a, _integrator_id(idx), [type |-> "int", label |-> "1/s"])
             c == add_node(b, _state_id(idx),
                           [type |-> "state", label |-> _state_label(idx, unicode_labels)])
             d == _add_edge(c, _sum_id(idx), _integrator_id(idx), ONE, FALSE)
             e == _add_edge(d, _integrator_id(idx), _state_id(idx), ONE, FALSE)
         IN  IntNodesFrom(e, m, unicode_labels, idx + 1)

\* build_integrator_graph: the loop that adds state -> ysum (c[0, idx])
RECURSIVE IntOutEdgesKeepZeros(_, _, _, _)
IntOutEdgesKeepZeros(g, m, prune_zeros, idx) ==
    IF idx >= Order(m) THEN g
    ELSE IntOutEdgesKeepZeros(
            _add_edge(g, _state_id(idx), "ysum", MatGet(m.c, 0, idx), FALSE),
            m, prune_zeros, idx + 1)
RECURSIVE IntOutEdgesFrom(_, _, _, _)
IntOutEdgesFrom(g, m, prune_zeros, idx) ==
    IF idx >= Order(m) THEN g
    ELSE IntOutEdgesFrom(
            _add_edge(g, _state_id(idx), "ysum", MatGet(m.c, 0, idx), prune_zeros),
            m, prune_zeros, idx + 1)

\* build_integrator_graph
IntegratorSumNodesAsXdot(m, unicode_labels, prune_zeros) ==
    LET g1 == add_node(DiGraph, "u", [type |-> "input", label |-> "u"])
        g2 == add_node(g1, "y", [type |-> "output", label |-> "y"])
        g3 == add_node(g2, "ysum", [type |-> "sum", label |-> _output_sum_label(unicode_labels)])
        g4 == _add_edge(g3, "ysum", "y", ONE, FALSE)
        g5 == IntNodesFrom(g4, m, unicode_labels, 0)
        g6 == _add_state_edges(g5, m, prune_zeros, "sfg")
        g7 == IntOutEdgesFrom(g6, m, prune_zeros, 0)
    IN  FeedThrough(g7, m, "ysum", prune_zeros)
build_integrator_graph(m, unicode_labels, prune_zeros) ==
    LET g1 == add_node(DiGraph, "u", [type |-> "input", label |-> "u"])
        g2 == add_node(g1, "y", [type |-> "output", label |-> "y"])
        g3 == add_node(g2, "ysum", [type |-> "sum", label |-> _output_sum_label(unicode_labels)])
        g4 == _add_edge(g3, "ysum", "y", ONE, FALSE)
        g5 == IntNodesFrom(g4, m, unicode_labels, 0)
        g6 == _add_state_edges(g5, m, prune_zeros, "integrator")
        g7 == IntOutEdgesFrom(g6, m, prune_zeros, 0)
    IN  FeedThrough(g7, m, "ysum", prune_zeros)

\* the matrix reads of the builders stay inside A, b and c
\* (A[row, col], b[row, 0] and c[0, idx] for row, col, idx in range(order))
ReadsInRange(m) ==
    \A i \in 0..(Order(m) - 1) :
        /\ \A j \in 0..(Order(m) - 1) : InRange(m.A, i, j)
        /\ InRange(m.b, i, 0)
        /\ InRange(m.c, 0, i)

\* build_graph: the graph, or the error raised; a matrix read out of range
\* raises IndexError out of the builder
BuildGraphByEquality(m, style, unicode_labels, prune_zeros) ==
    IF ~ReadsInRange(m) THEN Fail(IndexError(<<"Index out of range">>))
    ELSE IF style.value = GraphStyleSFG.value
    THEN Ok(build_sfg_graph(m, unicode_labels, prune_zeros))
    ELSE IF style.value = GraphStyleINTEGRATOR.value
    THEN Ok(build_integrator_graph(m, unicode_labels, prune_zeros))
    ELSE Fail(ValueError(<<"Unsupported graph style", FormatStyle(style)>>))
build_graph(m, style, unicode_labels, prune_zeros) ==
    IF style = GraphStyleSFG
    THEN IF ReadsInRange(m) THEN Ok(build_sfg_graph(m, unicode_labels, prune_zeros))
         ELSE Fail(IndexError(<<"Index out of range">>))
    ELSE IF style = GraphStyleINTEGRATOR
    THEN IF ReadsInRange(m) THEN Ok(build_integrator_graph(m, unicode_labels, prune_zeros))
         ELSE Fail(IndexError(<<"Index out of range">>))
    ELSE Fail(ValueError(<<"Unsupported graph style", FormatStyle(style)>>))

\* --------------------------------------------------------------- render.py

\* NODE_STYLES
NODE_STYLES ==
    [t \in {"input", "output", "state", "xdot", "sum", "int"} |->
        CASE t = "input" -> [shape |-> "circle", style |-> "filled", fillcolor |-> "#dbeafe"]
          [] t = "output" -> [shape |-> "doublecircle", style |-> "filled", fillcolor |-> "#dcfce7"]
          [] t = "state" -> [shape |-> "circle"]
          [] t = "xdot" -> [shape |-> "circle", style |-> "dashed"]
          [] t = "sum" -> [shape |-> "circle", style |-> "filled", fillcolor |-> "#fef3c7"]
          [] t = "int" -> [shape |-> "box"]]

\* float(expr.evalf(float_precision)) raises: the imaginary unit is a number
\* and no float ("Cannot convert complex to float")
EvalfRaises(expr) == IF expr.tag = "I" THEN "TypeError" ELSE "none"

\* n zeros
RECURSIVE Zeros(_)
Zeros(n) == IF n <= 0 THEN "" ELSE "0" \o Zeros(n - 1)

\* number of decimal digits of n > 0
RECURSIVE NumDigits(_)
NumDigits(n) == IF n < 10 THEN 1 ELSE 1 + NumDigits(n \div 10)

\* round(a / b) to an integer, halves to even, for a >= 0, b > 0
RoundDiv(a, b) ==
    LET q == a \div b
        r == a % b
    IN  IF 2 * r > b \/ (2 * r = b /\ q % 2 = 1) THEN q + 1 ELSE q

\* floor(log10(a / b)) for a, b > 0, searched downwards from k
RECURSIVE Exp10From(_, _, _)
Exp10From(a, b, k) ==
    IF k >= 0 THEN (IF a >= b * Pow10(k) THEN k ELSE Exp10From(a, b, k - 1))
    ELSE (IF a * Pow10(-k) >= b THEN k ELSE Exp10From(a, b, k - 1))

\* m, a decimal number of width digits after dropping trailing zeros of the
\* fraction: the digits before the point are m div 10^decimals
RECURSIVE Fixed(_, _)
Fixed(m, decimals) ==
    IF decimals = 0 THEN NatStr(m)
    ELSE IF m % 10 = 0 THEN Fixed(m \div 10, decimals - 1)
    ELSE LET frac == m % Pow10(decimals)
         IN  NatStr(m \div Pow10(decimals)) \o "."
             \o Zeros(decimals - NumDigits(frac)) \o NatStr(frac)

\* f"{numeric:.{p}g}" for the float nearest num / den, p >= 0: p significant
\* digits (0 counts as 1), fixed notation for a decimal exponent in -4 .. p-1
\* and scientific otherwise, trailing zeros dropped
FormatG(num, den, p) ==
    LET P == IF p = 0 THEN 1 ELSE p
        a == IF num < 0 THEN -num ELSE num
        sign == IF num < 0 THEN "-" ELSE ""
    IN  IF a = 0 THEN "0"
        ELSE
        LET x0 == Exp10From(a, den, 4)
            k0 == P - 1 - x0
            m0 == IF k0 >= 0 THEN RoundDiv(a * Pow10(k0), den)
                  ELSE RoundDiv(a, den * Pow10(-k0))
            carry == m0 = Pow10(P)
            X == IF carry THEN x0 + 1 ELSE x0
            m == IF carry THEN Pow10(P - 1) ELSE m0
        IN  IF X < -4 \/ X >= P
            THEN sign \o Fixed(m, P - 1) \o "e" \o (IF X < 0 THEN "-" ELSE "+")
                 \o (IF X < 10 /\ X > -10 THEN "0" ELSE "")
                 \o NatStr(IF X < 0 THEN -X ELSE X)
            ELSE sign \o Fixed(m, P - 1 - X)

\* format_gain: the string returned, or the exception that leaves the call.
\* Only TypeError and ValueError of the evaluation are caught; the f-string
\* is outside the try and raises ValueError for a negative precision.
Returned(t) == [raised |-> NoError, text |-> t, none |-> FALSE]
Raised(e) == [raised |-> e, text |-> "", none |-> FALSE]

format_gain(gain, simplify, float_precision) ==
    LET expr == IF simplify THEN Simplify(gain) ELSE gain IN
    IF float_precision.set /\ IsNumber(expr)
    THEN IF EvalfRaises(expr) \in {"TypeError", "ValueError"}
         THEN Returned(Str(expr))
         ELSE IF EvalfRaises(expr) # "none"
         THEN Raised([type |-> EvalfRaises(expr), msg |-> <<>>])
         ELSE IF float_precision.n < 0
         THEN Raised(ValueError(<<"Format specifier missing precision">>))
         ELSE Returned(FormatG(expr.num, expr.den, float_precision.n))
    ELSE LET label == Str(expr)
         IN  IF label = "1" /\ gain = ONE THEN Returned("1") ELSE Returned(label)


\* graph_to_dot, the node loop body: the style table's entries for the
\* node's type and the label are set where absent (setdefault)
StyleNodeOverride(node_id, data) ==
    LET styles == IF "type" \in DOMAIN data /\ data["type"] \in DOMAIN NODE_STYLES
                  THEN NODE_STYLES[data["type"]] ELSE EmptyMap
    IN  Put(Update(data, styles), "label", node_id)
StyleNode(node_id, data) ==
    LET styles == IF "type" \in DOMAIN data /\ data["type"] \in DOMAIN NODE_STYLES
                  THEN NODE_STYLES[data["type"]] ELSE EmptyMap
        styled == [k \in DOMAIN data \cup DOMAIN styles |->
                      IF k \in DOMAIN data THEN data[k] ELSE styles[k]]
    IN  IF "label" \in DOMAIN styled THEN styled ELSE Put(styled, "label", node_id)

\* graph_to_dot, the edge loop body: data.get("gain", ONE)
EdgeGain(data) == IF "gain" \in DOMAIN data THEN data["gain"] ELSE ONE

\* graph.copy(): a new graph object with attribute dictionaries of its own
GraphCopyAlias(h, ref) == [heap |-> h, ref |-> ref]
GraphCopy(h, ref) ==
    LET new == 1 + CHOOSE x \in DOMAIN h : \A y \in DOMAIN h : y <= x
    IN  [heap |-> Put(h, new, h[ref]), ref |-> new]

\* nx.drawing.nx_pydot.to_pydot(styled) with set_rankdir and to_string: every
\* node and edge with its attributes as strings (the order of the lines and
\* the quoting are left out)
NoDoc == [rankdir |-> "", nodes |-> EmptyMap, edges |-> EmptyMap]
ToPydot(g, rankdir) ==
    [rankdir |-> rankdir,
     nodes |-> g.nodes,
     edges |-> [e \in DOMAIN g.edges |->
                  [k \in DOMAIN g.edges[e] |->
                      IF k = "gain" THEN Str(g.edges[e][k]) ELSE g.edges[e][k]]]]

\* graph_to_dot on the graph object ref of heap h: the heap after the call
\* and the text returned, or the exception a format_gain call raised
graph_to_dot(h, ref, rankdir, simplify, float_precision) ==
    LET cp == GraphCopy(h, ref)
        g == cp.heap[cp.ref]
        nodes1 == [v \in DOMAIN g.nodes |-> StyleNode(v, g.nodes[v])]
        label(e) == format_gain(EdgeGain(g.edges[e]), simplify, float_precision)
        failing == {e \in DOMAIN g.edges : label(e).raised # NoError}
        edges1 == [e \in DOMAIN g.edges |-> Put(g.edges[e], "label", label(e).text)]
    IN  IF failing # {}
        THEN [heap |-> Put(cp.heap, cp.ref, [g EXCEPT !.nodes = nodes1]),
              out |-> [raised |-> label(CHOOSE e \in failing : TRUE).raised,
                       doc |-> NoDoc, none |-> FALSE]]
        ELSE LET styled == [g EXCEPT !.nodes = nodes1, !.edges = edges1]
             IN  [heap |-> Put(cp.heap, cp.ref, styled),
                  out |-> [raised |-> NoError, doc |-> ToPydot(styled, rankdir),
                           none |-> FALSE]]

\* class OutputFormat(str, Enum)
OutputFormatDOT == [cls |-> "OutputFormat", name |-> "DOT", value |-> "dot"]
OutputFormatSVG == [cls |-> "OutputFormat", name |-> "SVG", value |-> "svg"]
OutputFormatPDF == [cls |-> "OutputFormat", name |-> "PDF", value |-> "pdf"]

\* the file system as write_output sees it: output_path's parent directory
\* and what output_path holds
NoFile == [kind |-> "absent", of |-> NoDoc, fmt |-> ""]
FreshFs == [parent |-> FALSE, file |-> NoFile]

\* _render_with_graphviz: shutil.which("dot"), then one subprocess.run with
\* check=True.  env.found: the executable is on the path; env.returncode:
\* its exit status; env.leaves: what a failing dot leaves at output_path.
RenderWithFallback(source, fsys, fmt, env) ==
    IF ~env.found
    THEN [fs |-> [fsys EXCEPT !.file = [kind |-> "text", of |-> source, fmt |-> "dot"]],
          raised |-> NoError, events |-> <<"which", "write_text">>]
    ELSE [fs |-> [fsys EXCEPT !.file = [kind |-> "rendered", of |-> source, fmt |-> fmt.value]],
          raised |-> NoError, events |-> <<"which", "run">>]
_render_with_graphviz(source, fsys, fmt, env) ==
    IF ~env.found
    THEN [fs |-> fsys,
          raised |-> RuntimeError(<<"Graphviz 'dot' executable not found. Install graphviz or output DOT instead.">>),
          events |-> <<"which">>]
    ELSE IF env.returncode # 0
    THEN [fs |-> IF env.leaves = "partial"
                 THEN [fsys EXCEPT !.file = [kind |-> "partial", of |-> source,
                                             fmt |-> fmt.value]]
                 ELSE fsys,
          raised |-> RuntimeError(<<"Graphviz failed with exit code",
                                     IntStr(env.returncode)>>),
          events |-> <<"which", "run">>]
    ELSE [fs |-> [fsys EXCEPT !.file = [kind |-> "rendered", of |-> source,
                                        fmt |-> fmt.value]],
          raised |-> NoError, events |-> <<"which", "run">>]

\* write_output: graph_to_dot, mkdir of the parent, then write_text for DOT
\* and _render_with_graphviz for the other formats
write_output(h, ref, fsys, fmt, rankdir, simplify, float_precision, env) ==
    LET d == graph_to_dot(h, ref, rankdir, simplify, float_precision)
        made == [fsys EXCEPT !.parent = TRUE]
    IN  IF d.out.raised # NoError
        THEN [heap |-> d.heap, dot |-> d.out, fs |-> fsys, raised |-> d.out.raised,
              events |-> <<"graph_to_dot">>]
        ELSE IF fmt = OutputFormatDOT
        THEN [heap |-> d.heap, dot |-> d.out,
              fs |-> [made EXCEPT !.file = [kind |-> "text", of |-> d.out.doc,
                                            fmt |-> "dot"]],
              raised |-> NoError,
              events |-> <<"graph_to_dot", "mkdir", "write_text">>]
        ELSE LET r == _render_with_graphviz(d.out.doc, made, fmt, env)
             IN  [heap |-> d.heap, dot |-> d.out, fs |-> r.fs, raised |-> r.raised,
                  events |-> <<"graph_to_dot", "mkdir">> \o r.events]

\* ------------------------------------------------- the build pipeline (Spec)

NoCall == [style |-> PlainStr(""), unicode_labels |-> FALSE, prune_zeros |-> FALSE,
           none |-> TRUE]
Call(style, u, p) == [style |-> style, unicode_labels |-> u, prune_zeros |-> p,
                      none |-> FALSE]

\* float_precision: None, or an int
NonePrecision == [set |-> FALSE, n |-> 0]
Precision(n) == [set |-> TRUE, n |-> n]

NoDotArgs == [rankdir |-> "", simplify |-> FALSE, float_precision |-> NonePrecision, none |-> TRUE]
NoDot == [raised |-> NoError, doc |-> NoDoc, none |-> TRUE]
NoWrite == [fmt |-> OutputFormatDOT, found |-> FALSE, returncode |-> 0,
            leaves |-> "untouched", none |-> TRUE]
NoFmt == [gain |-> ZERO, simplify |-> FALSE, float_precision |-> NonePrecision, none |-> TRUE]
NoOutcome == [raised |-> NoError, text |-> "", none |-> TRUE]

\* the emitter's variables while the emitter is not part of the specification
EmitterIdle ==
    /\ heap = EmptyMap /\ graphRef = 0 /\ before = NoGraph
    /\ dotArgs = NoDotArgs /\ dotOut = NoDot
    /\ prevDotArgs = NoDotArgs /\ prevDotOut = NoDot
    /\ fmtIn = NoFmt /\ fmtOut = NoOutcome
    /\ writeIn = NoWrite /\ fs = FreshFs /\ events = <<>>

emitterVars == <<heap, graphRef, before, dotArgs, dotOut, prevDotArgs, prevDotOut,
                 fmtIn, fmtOut, writeIn, fs, events>>

NoAttempt == [via |-> "none", A |-> <<0, 0>>, b |-> <<0, 0>>, c |-> <<0, 0>>,
              ragged |-> FALSE, wrap |-> 0]

Init ==
    /\ pc = "start" /\ attempt = NoAttempt /\ model = NoModel /\ error = NoError
    /\ call = NoCall /\ graph = NoGraph
    /\ EmitterIdle

DefaultTape == [k \in 1..TapeLen |-> Integer(2)]

\* the shapes a caller may give A, b and c
ShapeValid(ar, ac, br, bc, cr, cc) == ac = ar /\ br = ar /\ bc = 1 /\ cr = 1 /\ cc = ar

\* a caller constructs StateSpaceModel(...) from matrices of any shape
Construct ==
    /\ pc = "start"
    /\ \E ar \in 0..MaxDim, ac \in 0..MaxDim, br \in 0..MaxDim, bc \in 1..2,
          cr \in 1..2, cc \in 0..MaxDim :
         \E tape \in (IF ShapeValid(ar, ac, br, bc, cr, cc) THEN Tapes ELSE {DefaultTape}),
            d \in CoefExprs :
            LET r == StateSpaceModel("demo", Filled(ar, ac, tape, 0),
                                     Filled(br, bc, tape, 1), Filled(cr, cc, tape, 2),
                                     d, <<>>)
            IN  /\ model' = r.value
                /\ error' = r.error
                /\ pc' = IF r.ok THEN "constructed" ELSE "rejected"
                /\ attempt' = [via |-> "direct", A |-> <<ar, ac>>, b |-> <<br, bc>>,
                               c |-> <<cr, cc>>, ragged |-> FALSE, wrap |-> 0]
    /\ UNCHANGED <<call, graph>>
    /\ UNCHANGED emitterVars

\* the documents a caller may hand to parse_model_dict
RawCoefs == {RawInt(0), RawInt(2), RawStr("a"), RawStr(TrigText)}
RawTapes == [1..TapeLen -> RawCoefs]
RawD == {Absent, RawStr("a - a"), RawStr(TrigText), RawInt(2), RawStr("2*")}
DefaultRawTape == [k \in 1..TapeLen |-> RawInt(2)]
Wrapped(v, wrap) ==
    IF wrap = 0 THEN v ELSE RawList([k \in 1..wrap |-> v])
RawDoc(nRows, width, ragged, bLen, cLen, wrap, tape, d) ==
    [name |-> "", variables |-> <<"a">>, d |-> d,
     A |-> [r \in 1..nRows |->
              [k \in 1..(width + (IF r = ragged THEN 1 ELSE 0)) |->
                  Entry(tape, (r - 1) * width + (k - 1))]],
     b |-> [k \in 1..bLen |-> Wrapped(Entry(tape, k), wrap)],
     c |-> [k \in 1..cLen |-> Wrapped(Entry(tape, 1 + k), wrap)]]

\* parse_model_dict(data)
ParseModelDict ==
    /\ pc = "start"
    /\ \E nRows \in 0..MaxDim, width \in 0..MaxDim, bLen \in 0..MaxDim,
          cLen \in 0..MaxDim, wrap \in 0..2 :
         \E ragged \in 0..nRows,
            tape \in (IF width = nRows /\ bLen = nRows /\ cLen = nRows
                      THEN RawTapes ELSE {DefaultRawTape}),
            d \in RawD :
            LET data == RawDoc(nRows, width, ragged, bLen, cLen, wrap, tape, d)
                r == parse_model_dict(data, "input")
            IN  /\ model' = r.value
                /\ error' = r.error
                /\ pc' = IF r.ok THEN "constructed" ELSE "rejected"
                /\ attempt' = [via |-> "parse",
                               A |-> <<nRows, IF nRows = 0 THEN 0 ELSE Len(data.A[1])>>,
                               b |-> <<bLen, 1>>, c |-> <<1, cLen>>,
                               ragged |-> (\E k \in 1..nRows :
                                              Len(data.A[k]) # Len(data.A[1])),
                               wrap |-> wrap]
    /\ UNCHANGED <<call, graph>>
    /\ UNCHANGED emitterVars

\* the style values a caller may pass
StyleInputs == {GraphStyleSFG, GraphStyleINTEGRATOR,
                PlainStr("sfg"), PlainStr("integrator"), PlainStr("block")}

\* build_graph(model, style=, unicode_labels=, prune_zeros=) on the model
\* that exists; a graph is built once per invocation
BuildGraph ==
    /\ pc = "constructed"
    /\ \E style \in StyleInputs, u \in BOOLEAN, p \in BOOLEAN :
         LET r == build_graph(model, style, u, p)
         IN  /\ call' = Call(style, u, p)
             /\ graph' = IF r.ok THEN r.value ELSE NoGraph
             /\ error' = r.error
             /\ pc' = IF r.ok THEN "built" ELSE "unsupported"
    /\ UNCHANGED <<model, attempt>>
    /\ UNCHANGED emitterVars

Next == Construct \/ ParseModelDict \/ BuildGraph

Spec == Init /\ [][Next]_vars

\* ------------------------------------------------ format_gain alone (SpecFmt)

\* the gains and precisions format_gain is called with
FmtExprs ==
    {Integer(n) : n \in -3..12}
    \cup {Rational(1, 3), Rational(2, 3), Rational(1, 2), Rational(-1, 2)}
    \cup {Symbol("a"), S_SYMBOL, OneOverS, ImaginaryUnit, TrigSum("a", -1), TrigSum("a", 0)}
Precisions == {NonePrecision, Precision(-1), Precision(1), Precision(2), Precision(3)}

builderVars == <<attempt, model, error, call, graph>>

InitFmt ==
    /\ pc = "start" /\ attempt = NoAttempt /\ model = NoModel /\ error = NoError
    /\ call = NoCall /\ graph = NoGraph
    /\ EmitterIdle

\* format_gain(gain, simplify=, float_precision=)
FormatGain ==
    /\ \E gain \in FmtExprs, simplify \in BOOLEAN, fp \in Precisions :
         /\ fmtIn' = [gain |-> gain, simplify |-> simplify, float_precision |-> fp,
                      none |-> FALSE]
         /\ fmtOut' = format_gain(gain, simplify, fp)
    /\ pc' = "formatted"
    /\ UNCHANGED builderVars
    /\ UNCHANGED <<heap, graphRef, before, dotArgs, dotOut, prevDotArgs, prevDotOut,
                   writeIn, fs, events>>

NextFmt == FormatGain

SpecFmt == InitFmt /\ [][NextFmt]_vars

\* ------------------------------------------------- the emitter (SpecDot, SpecWrite)

\* the models whose graphs are emitted: order 1 with A and b from EmitExprs,
\* and the order-2 model of tests/test_graph.py
EmitExprs == {ONE, Rational(1, 3), Symbol("a"), TrigSum("a", 0), ImaginaryUnit}
One(e) == Matrix(1, 1, [ij \in {<<1, 1>>} |-> e])
DemoModel ==
    StateSpaceModel("demo",
        Matrix(2, 2, (<<1, 1>> :> ZERO) @@ (<<1, 2>> :> ONE)
                     @@ (<<2, 1>> :> Integer(-2)) @@ (<<2, 2>> :> Integer(-3))),
        Matrix(2, 1, (<<1, 1>> :> ZERO) @@ (<<2, 1>> :> ONE)),
        Matrix(1, 2, (<<1, 1>> :> ONE) @@ (<<1, 2>> :> ZERO)),
        Integer(2), <<>>).value
EmitModels ==
    {StateSpaceModel("m", One(a), One(b), One(ONE), ZERO, <<>>).value :
        a \in EmitExprs, b \in EmitExprs}
    \cup {DemoModel}

\* what a caller may have set on the graph before handing it to the emitter:
\* nothing; presentation attributes on u and a label on every edge; a node
\* without attributes joined by an edge without gain
Decorations == {"none", "presentation", "bare node"}
Decorate(g, deco) ==
    CASE deco = "none" -> g
      [] deco = "presentation" ->
            LET n == add_node(g, "u", [shape |-> "box", fillcolor |-> "red"])
            IN  [n EXCEPT !.edges = [e \in DOMAIN n.edges |->
                                        Put(n.edges[e], "label", "old")]]
      [] deco = "bare node" -> add_edge(g, "probe", "y", EmptyMap)

DotInputs == [rankdir : {"LR", "TB"}, simplify : BOOLEAN,
              float_precision : {NonePrecision, Precision(-1), Precision(2)},
              none : {FALSE}]

\* a graph built by build_graph from one of models, as the caller holds it
EmitInit(models) ==
    /\ pc = "built" /\ attempt = NoAttempt /\ error = NoError
    /\ \E m \in models, style \in {GraphStyleSFG, GraphStyleINTEGRATOR},
          deco \in Decorations :
         /\ model = m
         /\ call = Call(style, FALSE, FALSE)
         /\ graph = build_graph(m, style, FALSE, FALSE).value
         /\ heap = (1 :> Decorate(graph, deco))
    /\ graphRef = 1 /\ before = NoGraph
    /\ dotArgs = NoDotArgs /\ dotOut = NoDot
    /\ prevDotArgs = NoDotArgs /\ prevDotOut = NoDot
    /\ fmtIn = NoFmt /\ fmtOut = NoOutcome
    /\ writeIn = NoWrite /\ fs = FreshFs /\ events = <<>>

InitEmit == EmitInit(EmitModels)

\* the objects the caller still holds after a call
Reachable(h) == [r \in {graphRef} |-> h[r]]

\* graph_to_dot(graph, rankdir=, simplify=, float_precision=), at most twice
GraphToDot ==
    /\ pc \in {"built", "emitted"}
    /\ \E a \in DotInputs :
         LET r == graph_to_dot(heap, graphRef, a.rankdir, a.simplify, a.float_precision)
         IN  /\ heap' = Reachable(r.heap)
             /\ dotArgs' = a
             /\ dotOut' = r.out
    /\ before' = heap[graphRef]
    /\ prevDotArgs' = dotArgs
    /\ prevDotOut' = dotOut
    /\ pc' = IF pc = "built" THEN "emitted" ELSE "emitted twice"
    /\ UNCHANGED builderVars
    /\ UNCHANGED <<graphRef, fmtIn, fmtOut, writeIn, fs, events>>

NextDot == GraphToDot

SpecDot == InitEmit /\ [][NextDot]_vars

\* the graphs and emitter arguments of the write_output calls
WriteModels == {m \in EmitModels : m.b = One(ONE) \/ m = DemoModel}
WriteDotInputs == {a \in DotInputs : a.rankdir = "LR"}
InitWrite == EmitInit(WriteModels)

\* the environment of a write_output call
WriteInputs == [fmt : {OutputFormatDOT, OutputFormatSVG, OutputFormatPDF},
                found : BOOLEAN, returncode : {0, 1, 2},
                leaves : {"untouched", "partial"}, none : {FALSE}]

\* write_output(graph, output_path=, fmt=, rankdir=, simplify=,
\* float_precision=), once per invocation
WriteOutput ==
    /\ pc = "built"
    /\ \E a \in WriteDotInputs, w \in WriteInputs :
         \E r \in {write_output(heap, graphRef, fs, w.fmt, a.rankdir, a.simplify,
                                a.float_precision, w)} :
             /\ heap' = Reachable(r.heap)
             /\ dotArgs' = a
             /\ dotOut' = r.dot
             /\ writeIn' = w
             /\ fs' = r.fs
             /\ events' = r.events
             /\ error' = r.raised
             /\ pc' = IF r.raised = NoError THEN "written" ELSE "failed"
    /\ before' = heap[graphRef]
    /\ UNCHANGED <<attempt, model, call, graph>>
    /\ UNCHANGED <<graphRef, prevDotArgs, prevDotOut, fmtIn, fmtOut>>

NextWrite == WriteOutput

SpecWrite == InitWrite /\ [][NextWrite]_vars

\* ------------------------------------------------------- claims C1 .. C6

HasEdge(g, src, dst) == <<src, dst>> \in DOMAIN g.edges
IsSfg == call.style = GraphStyleSFG
FeedDst == IF IsSfg THEN "y" ELSE "ysum"
States(n) == {_state_id(i) : i \in 0..(n - 1)}

\* C1 as stated: in every built graph the feed-through edge (u -> y in the
\* SFG graph, u -> ysum in the Integrator graph) is present if and only if d
\* is not the zero expression, whatever prune_zeros is.
C1_AsStated ==
    pc = "built" => (HasEdge(graph, "u", FeedDst) <=> model.d # ZERO)

\* C1 amended: the feed-through edge is present, with gain d, if and only if
\* d is not the zero expression and, when prune_zeros is set, d does not
\* simplify to zero; a d that is zero only after simplification has the edge
\* with prune_zeros=False and lacks it with prune_zeros=True.
C1_FeedThrough ==
    pc = "built" =>
        /\ HasEdge(graph, "u", FeedDst)
              <=> (model.d # ZERO /\ ~(call.prune_zeros /\ Simplify(model.d) = ZERO))
        /\ HasEdge(graph, "u", FeedDst) => graph.edges[<<"u", FeedDst>>].gain = model.d
        /\ (model.d # ZERO /\ Simplify(model.d) = ZERO)
              => (HasEdge(graph, "u", FeedDst) <=> ~call.prune_zeros)

C1_Witness ==
    /\ pc = "built" /\ call.prune_zeros
    /\ model.d = TrigSum("a", -1)
    /\ ~HasEdge(graph, "u", FeedDst)

\* the structural edges of a topology for a model of order n
StructuralEdges(sfg, n) ==
    IF sfg THEN {<<_xdot_id(i), _state_id(i)>> : i \in 0..(n - 1)}
    ELSE {<<"ysum", "y">>}
         \cup {<<_sum_id(i), _integrator_id(i)>> : i \in 0..(n - 1)}
         \cup {<<_integrator_id(i), _state_id(i)>> : i \in 0..(n - 1)}

\* the graph the same builder returns for the same model without pruning
Unpruned ==
    IF IsSfg THEN build_sfg_graph(model, call.unicode_labels, FALSE)
    ELSE build_integrator_graph(model, call.unicode_labels, FALSE)

\* C2: the edges of a graph built with prune_zeros=True are those of the
\* graph built with prune_zeros=False minus exactly the coefficient edges
\* whose simplified gain is zero; the structural edges all stay, every kept
\* edge keeps its gain.
C2_PruneExact ==
    (pc = "built" /\ call.prune_zeros) =>
        LET ref == Unpruned
            structural == StructuralEdges(IsSfg, Order(model))
        IN  /\ structural \subseteq DOMAIN ref.edges
            /\ DOMAIN graph.edges =
                 {e \in DOMAIN ref.edges :
                     e \in structural \/ Simplify(ref.edges[e].gain) # ZERO}
            /\ \A e \in structural : Simplify(ref.edges[e].gain) # ZERO
            /\ \A e \in DOMAIN graph.edges : graph.edges[e] = ref.edges[e]

C2_Witness ==
    /\ pc = "built" /\ call.prune_zeros /\ Order(model) = 2
    /\ \E e \in DOMAIN Unpruned.edges :
          /\ Unpruned.edges[e].gain = TrigSum("a", -1)
          /\ e \notin DOMAIN graph.edges
    /\ \E e \in DOMAIN graph.edges : graph.edges[e].gain = Symbol("a")

\* C3: in every SFG graph each xdot_i has exactly one outgoing edge, it goes
\* to x_i and its gain is 1/s, with prune_zeros set or not.
C3_IntegrationEdges ==
    (pc = "built" /\ IsSfg) =>
        \A i \in 0..(Order(model) - 1) :
            /\ HasEdge(graph, _xdot_id(i), _state_id(i))
            /\ graph.edges[<<_xdot_id(i), _state_id(i)>>].gain = Inverse("s")
            /\ Str(graph.edges[<<_xdot_id(i), _state_id(i)>>].gain) = "1/s"
            /\ \A e \in DOMAIN graph.edges : e[1] = _xdot_id(i) => e[2] = _state_id(i)

C3_Witness ==
    /\ pc = "built" /\ IsSfg /\ call.prune_zeros /\ Order(model) = 2
    /\ HasEdge(graph, "xdot2", "x2")
    /\ ~HasEdge(graph, "x1", "xdot1")

\* C4: an Integrator graph of a model of order n has the nodes u, y, ysum,
\* sum_i, int_i and x_i for i in 1..n and no other, 3 + 3n in all, n of each
\* of the three indexed kinds, and every edge joins two of them.
C4_IntegratorNodes ==
    (pc = "built" /\ call.style = GraphStyleINTEGRATOR) =>
        LET n == Order(model)
            typed(t) == {v \in DOMAIN graph.nodes :
                            "type" \in DOMAIN graph.nodes[v] /\ graph.nodes[v]["type"] = t}
            expected == {"u", "y", "ysum"}
                        \cup {_sum_id(i) : i \in 0..(n - 1)}
                        \cup {_integrator_id(i) : i \in 0..(n - 1)}
                        \cup States(n)
        IN  /\ DOMAIN graph.nodes = expected
            /\ Cardinality(DOMAIN graph.nodes) = 3 + 3 * n
            /\ typed("sum") = {"ysum"} \cup {_sum_id(i) : i \in 0..(n - 1)}
            /\ typed("int") = {_integrator_id(i) : i \in 0..(n - 1)}
            /\ typed("state") = States(n)
            /\ \A e \in DOMAIN graph.edges : e[1] \in expected /\ e[2] \in expected

C4_Witness ==
    /\ pc = "built" /\ call.style = GraphStyleINTEGRATOR /\ Order(model) = 2
    /\ Cardinality(DOMAIN graph.nodes) = 9
    /\ HasEdge(graph, "x2", "sum1")

\* C5: build_graph with the member GraphStyle.SFG returns what
\* build_sfg_graph returns for the same arguments, with GraphStyle.INTEGRATOR
\* what build_integrator_graph returns; with any other value it returns no
\* graph and raises ValueError with the value in its message.
C5_Dispatch ==
    (pc \in {"built", "unsupported"}) =>
        IF call.style = GraphStyleSFG
        THEN pc = "built" /\ error = NoError
             /\ graph = build_sfg_graph(model, call.unicode_labels, call.prune_zeros)
        ELSE IF call.style = GraphStyleINTEGRATOR
        THEN pc = "built" /\ error = NoError
             /\ graph = build_integrator_graph(model, call.unicode_labels, call.prune_zeros)
        ELSE /\ pc = "unsupported" /\ graph = NoGraph
             /\ error.type = "ValueError"
             /\ \E k \in 1..Len(error.msg) : error.msg[k] = call.style.value

C5_Witness ==
    /\ pc = "unsupported" /\ call.style = PlainStr("block")
    /\ error = ValueError(<<"Unsupported graph style", "block">>)

\* the dimension invariants of a model
Dimensioned(m) ==
    /\ m.A.cols = m.A.rows
    /\ <<m.b.rows, m.b.cols>> = <<m.A.rows, 1>>
    /\ <<m.c.rows, m.c.cols>> = <<1, m.A.rows>>

\* the shapes of a construction attempt break a dimension invariant
AttemptMismatched ==
    \/ attempt.A[1] # attempt.A[2]
    \/ attempt.b # <<attempt.A[1], 1>>
    \/ attempt.c # <<1, attempt.A[1]>>
    \/ attempt.ragged

\* C6: a model that exists has a square A, an n x 1 b and a 1 x n c; a
\* construction attempt (direct or through parse_model_dict) with mismatched
\* shapes raises ValueError and leaves no model, so no graph is built from
\* one and no builder raises a dimension (index) error.
C6_Validated ==
    /\ model # NoModel => Dimensioned(model)
    /\ (attempt.via # "none" /\ AttemptMismatched) =>
            pc = "rejected" /\ model = NoModel /\ error.type = "ValueError"
    /\ pc = "rejected" => graph = NoGraph
    /\ graph # NoGraph => Dimensioned(model)
    /\ error.type # "IndexError"

C6_Witness ==
    /\ pc = "rejected" /\ attempt.via = "parse"
    /\ attempt.A = <<1, 1>> /\ attempt.b = <<2, 1>> /\ attempt.c = <<1, 1>>
    /\ error.type = "ValueError" /\ model = NoModel /\ graph = NoGraph

\* ------------------------------------------------------- claims C7 .. C10

\* C7: graph_to_dot leaves the caller's graph as it was: the same nodes and
\* edges with the same attributes (no shape, style, fillcolor or label added
\* to a node, no label added to or changed on an edge, gain unchanged), and a
\* second call with the same arguments returns the same text.
C7_GraphUntouched ==
    (pc \in {"emitted", "emitted twice"}) =>
        /\ heap[graphRef] = before
        /\ DOMAIN heap = {graphRef}
        /\ (pc = "emitted twice" /\ dotArgs = prevDotArgs) => dotOut = prevDotOut

C7_Witness ==
    /\ pc = "emitted twice" /\ dotArgs = prevDotArgs
    /\ dotOut.raised = NoError
    /\ "shape" \notin DOMAIN heap[graphRef].nodes["y"]
    /\ dotOut.doc.nodes["y"]["shape"] = "doublecircle"
    /\ \E e \in DOMAIN before.edges :
          /\ "label" \notin DOMAIN before.edges[e]
          /\ "label" \in DOMAIN dotOut.doc.edges[e]

StyleKeys == {"shape", "style", "fillcolor", "label"}

\* C8: in the text graph_to_dot returns, a node's shape, style, fillcolor and
\* label keep the value the node had before the call; one it lacked has the
\* style table's value for the node's type (none if the table has none), a
\* lacking label is the node identifier; every edge's label is format_gain of
\* the edge's gain, whatever label the edge had.
C8_SetIfAbsent ==
    (pc \in {"emitted", "emitted twice"} /\ dotOut.raised = NoError) =>
        /\ DOMAIN dotOut.doc.nodes = DOMAIN before.nodes
        /\ DOMAIN dotOut.doc.edges = DOMAIN before.edges
        /\ dotOut.doc.rankdir = dotArgs.rankdir
        /\ \A v \in DOMAIN before.nodes : \A k \in StyleKeys :
              LET had == before.nodes[v]
                  got == dotOut.doc.nodes[v]
                  table == IF "type" \in DOMAIN had /\ had["type"] \in DOMAIN NODE_STYLES
                           THEN NODE_STYLES[had["type"]] ELSE EmptyMap
              IN  IF k \in DOMAIN had THEN k \in DOMAIN got /\ got[k] = had[k]
                  ELSE IF k \in DOMAIN table THEN k \in DOMAIN got /\ got[k] = table[k]
                  ELSE IF k = "label" THEN k \in DOMAIN got /\ got[k] = v
                  ELSE k \notin DOMAIN got
        /\ \A e \in DOMAIN before.edges :
              "gain" \in DOMAIN before.edges[e] =>
                  dotOut.doc.edges[e]["label"] =
                      format_gain(before.edges[e]["gain"], dotArgs.simplify,
                                  dotArgs.float_precision).text

C8_Witness ==
    /\ pc = "emitted" /\ dotOut.raised = NoError
    /\ dotArgs.float_precision = Precision(2)
    /\ "shape" \in DOMAIN before.nodes["u"]
    /\ before.nodes["u"]["shape"] = "box"
    /\ dotOut.doc.nodes["u"]["shape"] = "box"
    /\ dotOut.doc.nodes["u"]["fillcolor"] = "red"
    /\ dotOut.doc.nodes["u"]["style"] = "filled"
    /\ HasEdge(before, "x1", "xdot1")
    /\ before.edges[<<"x1", "xdot1">>] = [gain |-> Rational(1, 3), label |-> "old"]
    /\ dotOut.doc.edges[<<"x1", "xdot1">>]["label"] = "0.33"

\* numeric evaluation or rendering of the (possibly simplified) gain of the
\* last format_gain call is not possible
NotRenderable ==
    LET expr == IF fmtIn.simplify THEN Simplify(fmtIn.gain) ELSE fmtIn.gain
    IN  \/ ~IsNumber(expr)
        \/ EvalfRaises(expr) # "none"
        \/ fmtIn.float_precision.n < 0

\* C9 as stated: with float_precision set, format_gain never raises, and
\* whenever the number cannot be evaluated or rendered it returns the
\* expression's default string form.
C9_NeverFails ==
    (pc = "formatted" /\ fmtIn.float_precision.set) =>
        /\ fmtOut.raised = NoError
        /\ NotRenderable =>
              fmtOut.text = Str(IF fmtIn.simplify THEN Simplify(fmtIn.gain)
                                ELSE fmtIn.gain)

\* the runs of the external renderer in the last write_output call
Count(seq, x) == Cardinality({k \in 1..Len(seq) : seq[k] = x})

\* C10: a write_output call with a non-native format runs the renderer at
\* most once; when dot is looked up and not found, or exits with a non-zero
\* status, the call raises RuntimeError (with the exit status in the second
\* case), the renderer is not run again and the text is not written to
\* output_path instead.
C10_NoRetryNoFallback ==
    (pc \in {"written", "failed"} /\ writeIn.fmt # OutputFormatDOT) =>
        /\ Count(events, "run") <= 1
        /\ Count(events, "which") <= 1
        /\ Count(events, "write_text") = 0
        /\ fs.file.kind # "text"
        /\ (~writeIn.found \/ writeIn.returncode # 0) => pc = "failed"
        /\ (Count(events, "which") = 1 /\ ~writeIn.found) =>
              /\ error.type = "RuntimeError"
              /\ Count(events, "run") = 0
              /\ fs.file = NoFile
        /\ (Count(events, "which") = 1 /\ writeIn.found /\ writeIn.returncode # 0) =>
              /\ error.type = "RuntimeError"
              /\ \E k \in 1..Len(error.msg) : error.msg[k] = IntStr(writeIn.returncode)
              /\ Count(events, "run") = 1
        /\ pc = "written" => fs.file.kind = "rendered" /\ Count(events, "run") = 1

C10_Witness ==
    /\ pc = "failed" /\ writeIn.fmt = OutputFormatSVG
    /\ writeIn.found /\ writeIn.returncode = 2
    /\ error = RuntimeError(<<"Graphviz failed with exit code", "2">>)
    /\ events = <<"graph_to_dot", "mkdir", "which", "run">>
    /\ fs.parent

\* ------------------------------------------------------------- claim C11

\* the graph the other builder returns for the same model and arguments
OtherTopology ==
    IF IsSfg THEN build_integrator_graph(model, call.unicode_labels, call.prune_zeros)
    ELSE build_sfg_graph(model, call.unicode_labels, call.prune_zeros)
SfgGraph == IF IsSfg THEN graph ELSE OtherTopology
IntegratorGraph == IF IsSfg THEN OtherTopology ELSE graph

\* the coefficient edges of the SFG graph of a model of order n, each with the
\* edge it maps to (xdot_r -> sum_r, x_c -> x_c, u -> u, y -> ysum) and the
\* coefficient it carries
CoefficientEdges(m) ==
    LET idx == 0..(Order(m) - 1) IN
    {[sfg |-> <<_state_id(c), _xdot_id(r)>>, int |-> <<_state_id(c), _sum_id(r)>>,
      gain |-> MatGet(m.A, r, c)] : r \in idx, c \in idx}
    \cup {[sfg |-> <<"u", _xdot_id(r)>>, int |-> <<"u", _sum_id(r)>>,
           gain |-> MatGet(m.b, r, 0)] : r \in idx}
    \cup {[sfg |-> <<_state_id(i), "y">>, int |-> <<_state_id(i), "ysum">>,
           gain |-> MatGet(m.c, 0, i)] : i \in idx}
    \cup {[sfg |-> <<"u", "y">>, int |-> <<"u", "ysum">>, gain |-> m.d]}

\* C11: for the same model and the same prune_zeros, a coefficient edge
\* (x_c -> xdot_r, u -> xdot_r, x_i -> y, u -> y) is in the SFG graph if and
\* only if its image under xdot_r -> sum_r, y -> ysum is in the Integrator
\* graph, and where present both carry the same gain: A[r,c], b[r], c[i], d;
\* sum_r has the sources xdot_r has, and ysum has the sources y has.
C11_SameFeeds ==
    pc = "built" =>
        /\ \A e \in CoefficientEdges(model) :
            /\ e.sfg \in DOMAIN SfgGraph.edges <=> e.int \in DOMAIN IntegratorGraph.edges
            /\ e.sfg \in DOMAIN SfgGraph.edges =>
                  /\ SfgGraph.edges[e.sfg].gain = e.gain
                  /\ IntegratorGraph.edges[e.int].gain = e.gain
        /\ \A r \in 0..(Order(model) - 1) :
              {e[1] : e \in {f \in DOMAIN SfgGraph.edges : f[2] = _xdot_id(r)}}
                = {e[1] : e \in {f \in DOMAIN IntegratorGraph.edges : f[2] = _sum_id(r)}}
        /\ {e[1] : e \in {f \in DOMAIN SfgGraph.edges : f[2] = "y"}}
              = {e[1] : e \in {f \in DOMAIN IntegratorGraph.edges : f[2] = "ysum"}}

\* an order-2 model built with prune_zeros set: a coefficient that is zero
\* only after simplification is left out of both graphs, another one is in both
C11_Witness ==
    /\ pc = "built" /\ call.prune_zeros /\ Order(model) = 2
    /\ \E e \in CoefficientEdges(model) :
          /\ e.gain = TrigSum("a", -1)
          /\ e.sfg \notin DOMAIN SfgGraph.edges
          /\ e.int \notin DOMAIN IntegratorGraph.edges
    /\ \E e \in CoefficientEdges(model) :
          /\ e.gain = Symbol("a")
          /\ e.sfg \in DOMAIN SfgGraph.edges
          /\ e.int \in DOMAIN IntegratorGraph.edges

====
